---------------------------- MODULE Spec2Model ----------------------------
(***************************************************************************)
(* A model of spec_parser/rdf.py: gen_rdf_ontology projects a schema model *)
(* into a graph of statements, and jsonld_context derives a term table     *)
(* from that graph.  Strings are sequences of character codes, so that     *)
(* prefix tests, splitting, lower-casing and sorting are computed as the   *)
(* Python code computes them.                                              *)
(***************************************************************************)
EXTENDS Integers, Sequences, FiniteSets, TLC

VARIABLES model, pc, g, ci, parent, referenceable, id_property, pi, li,
          bn, log, terms, has_named_individuals, todo

vars == <<model, pc, g, ci, parent, referenceable, id_property, pi, li,
          bn, log, terms, has_named_individuals, todo>>

(***************************************************************************)
(* Bounds of the model.                                                    *)
(***************************************************************************)
\* classes of an inheritance-walk model
NumClasses == 2
\* property declarations of the shaped class of a shape model
MaxProps == 3
\* entries of the vocabulary of a context model
MaxEntries == 1

(***************************************************************************)
(* String constants of the program (rdf.py and the rdflib namespaces).     *)
(***************************************************************************)
RDFS_Class == \* "http://www.w3.org/2000/01/rdf-schema#Class"
    <<104, 116, 116, 112, 58, 47, 47, 119, 119, 119, 46, 119, 51, 46, 111, 114, 103, 47, 50, 48, 48, 48, 47, 48, 49, 47, 114, 100, 102, 45, 115, 99, 104, 101, 109, 97, 35, 67, 108, 97, 115, 115>>
OWL_Class == \* "http://www.w3.org/2002/07/owl#Class"
    <<104, 116, 116, 112, 58, 47, 47, 119, 119, 119, 46, 119, 51, 46, 111, 114, 103, 47, 50, 48, 48, 50, 47, 48, 55, 47, 111, 119, 108, 35, 67, 108, 97, 115, 115>>
OWL_Ontology == \* "http://www.w3.org/2002/07/owl#Ontology"
    <<104, 116, 116, 112, 58, 47, 47, 119, 119, 119, 46, 119, 51, 46, 111, 114, 103, 47, 50, 48, 48, 50, 47, 48, 55, 47, 111, 119, 108, 35, 79, 110, 116, 111, 108, 111, 103, 121>>
OWL_NamedIndividual == \* "http://www.w3.org/2002/07/owl#NamedIndividual"
    <<104, 116, 116, 112, 58, 47, 47, 119, 119, 119, 46, 119, 51, 46, 111, 114, 103, 47, 50, 48, 48, 50, 47, 48, 55, 47, 111, 119, 108, 35, 78, 97, 109, 101, 100, 73, 110, 100, 105, 118, 105, 100, 117, 97, 108>>
OWL_ObjectProperty == \* "http://www.w3.org/2002/07/owl#ObjectProperty"
    <<104, 116, 116, 112, 58, 47, 47, 119, 119, 119, 46, 119, 51, 46, 111, 114, 103, 47, 50, 48, 48, 50, 47, 48, 55, 47, 111, 119, 108, 35, 79, 98, 106, 101, 99, 116, 80, 114, 111, 112, 101, 114, 116, 121>>
OWL_DatatypeProperty == \* "http://www.w3.org/2002/07/owl#DatatypeProperty"
    <<104, 116, 116, 112, 58, 47, 47, 119, 119, 119, 46, 119, 51, 46, 111, 114, 103, 47, 50, 48, 48, 50, 47, 48, 55, 47, 111, 119, 108, 35, 68, 97, 116, 97, 116, 121, 112, 101, 80, 114, 111, 112, 101, 114, 116, 121>>
RDF_Property == \* "http://www.w3.org/1999/02/22-rdf-syntax-ns#Property"
    <<104, 116, 116, 112, 58, 47, 47, 119, 119, 119, 46, 119, 51, 46, 111, 114, 103, 47, 49, 57, 57, 57, 47, 48, 50, 47, 50, 50, 45, 114, 100, 102, 45, 115, 121, 110, 116, 97, 120, 45, 110, 115, 35, 80, 114, 111, 112, 101, 114, 116, 121>>
SH_NodeShape == \* "http://www.w3.org/ns/shacl#NodeShape"
    <<104, 116, 116, 112, 58, 47, 47, 119, 119, 119, 46, 119, 51, 46, 111, 114, 103, 47, 110, 115, 47, 115, 104, 97, 99, 108, 35, 78, 111, 100, 101, 83, 104, 97, 112, 101>>
XSD_NS == \* "http://www.w3.org/2001/XMLSchema#"
    <<104, 116, 116, 112, 58, 47, 47, 119, 119, 119, 46, 119, 51, 46, 111, 114, 103, 47, 50, 48, 48, 49, 47, 88, 77, 76, 83, 99, 104, 101, 109, 97, 35>>
URI_BASE == \* "https://rdf.spdx.org/v3/"
    <<104, 116, 116, 112, 115, 58, 47, 47, 114, 100, 102, 46, 115, 112, 100, 120, 46, 111, 114, 103, 47, 118, 51, 47>>

(***************************************************************************)
(* Strings the input models are built from.                                *)
(***************************************************************************)
sCore == \* "Core"
    <<67, 111, 114, 101>>
sA == \* "A"
    <<65>>
sLowA == \* "a"
    <<97>>
sXsdPrefix == \* "xsd:"
    <<120, 115, 100, 58>>
sOptional == \* "optional"
    <<111, 112, 116, 105, 111, 110, 97, 108>>
sYes == \* "yes"
    <<121, 101, 115>>
sNo == \* "no"
    <<110, 111>>
sIdProperty == \* "IdProperty"
    <<73, 100, 80, 114, 111, 112, 101, 114, 116, 121>>
sObjectProperty == \* "ObjectProperty"
    <<79, 98, 106, 101, 99, 116, 80, 114, 111, 112, 101, 114, 116, 121>>
sDataProperty == \* "DataProperty"
    <<68, 97, 116, 97, 80, 114, 111, 112, 101, 114, 116, 121>>
sStar == \* "*"
    <<42>>
sAtType == \* "@type"
    <<64, 116, 121, 112, 101>>
sAtId == \* "@id"
    <<64, 105, 100>>
sAtVocab == \* "@vocab"
    <<64, 118, 111, 99, 97, 98>>
sSpdx == \* "spdx"
    <<115, 112, 100, 120>>
sType == \* "type"
    <<116, 121, 112, 101>>
sPerson == \* "Person"
    <<80, 101, 114, 115, 111, 110>>
sAgent == \* "Agent"
    <<65, 103, 101, 110, 116>>
sTool == \* "Tool"
    <<84, 111, 111, 108>>
sThing == \* "Thing"
    <<84, 104, 105, 110, 103>>
sATool == \* "a_Tool"
    <<97, 95, 84, 111, 111, 108>>
sAKey == \* "a_key"
    <<97, 95, 107, 101, 121>>
sSpdxId == \* "spdxId"
    <<115, 112, 100, 120, 73, 100>>
sKey == \* "key"
    <<107, 101, 121>>
sName == \* "name"
    <<110, 97, 109, 101>>
sColor == \* "color"
    <<99, 111, 108, 111, 114>>
sOdd == \* "odd"
    <<111, 100, 100>>
sStatus == \* "status"
    <<115, 116, 97, 116, 117, 115>>
sAgentProp == \* "agent"
    <<97, 103, 101, 110, 116>>
sVer == \* "ver"
    <<118, 101, 114>>
sFlag == \* "flag"
    <<102, 108, 97, 103>>
sKind == \* "kind"
    <<107, 105, 110, 100>>
sStatusVoc == \* "Status"
    <<83, 116, 97, 116, 117, 115>>
sSemVer == \* "SemVer"
    <<83, 101, 109, 86, 101, 114>>
sNoAssertion == \* "NOASSERTION"
    <<78, 79, 65, 83, 83, 69, 82, 84, 73, 79, 78>>
sActive == \* "Active"
    <<65, 99, 116, 105, 118, 101>>
sRetired == \* "Retired"
    <<82, 101, 116, 105, 114, 101, 100>>
sInUse == \* "in use"
    <<105, 110, 32, 117, 115, 101>>
sNoLonger == \* "no longer used"
    <<110, 111, 32, 108, 111, 110, 103, 101, 114, 32, 117, 115, 101, 100>>
sXsdString == \* "xsd:string"
    <<120, 115, 100, 58, 115, 116, 114, 105, 110, 103>>
sXsdAnyURI == \* "xsd:anyURI"
    <<120, 115, 100, 58, 97, 110, 121, 85, 82, 73>>
sXsdHue == \* "xsd:hue"
    <<120, 115, 100, 58, 104, 117, 101>>
sXsdBoolean == \* "xsd:boolean"
    <<120, 115, 100, 58, 98, 111, 111, 108, 101, 97, 110>>
sFooBar == \* "foo:bar"
    <<102, 111, 111, 58, 98, 97, 114>>
sAbsAgent == \* "/Core/Agent"
    <<47, 67, 111, 114, 101, 47, 65, 103, 101, 110, 116>>
sMissing == \* "Missing"
    <<77, 105, 115, 115, 105, 110, 103>>
sPattern == \* "[0-9]+"
    <<91, 48, 45, 57, 93, 43>>
sSummary == \* "doc"
    <<100, 111, 99>>
sCustomIri == \* "http://example.org/noassert"
    <<104, 116, 116, 112, 58, 47, 47, 101, 120, 97, 109, 112, 108, 101, 46, 111, 114, 103, 47, 110, 111, 97, 115, 115, 101, 114, 116>>
s0 == \* "0"
    <<48>>
s1 == \* "1"
    <<49>>
s00 == \* "00"
    <<48, 48>>
s2 == \* "2"
    <<50>>

(***************************************************************************)
(* Python string operations, on sequences of character codes.              *)
(***************************************************************************)
Slash == <<47>>

\* s.startswith(pre)
StartsWith(s, pre) ==
    Len(s) >= Len(pre) /\ SubSeq(s, 1, Len(pre)) = pre

\* ch in s, for a one-character string ch
Contains(s, ch) == \E i \in 1..Len(s) : s[i] = ch[1]

\* the index of the last occurrence of ch in s, 0 when there is none
LastIndexOf(s, ch) ==
    IF Contains(s, ch)
    THEN CHOOSE i \in 1..Len(s) :
            s[i] = ch[1] /\ \A j \in (i+1)..Len(s) : s[j] # ch[1]
    ELSE 0

\* s.rsplit(ch)[-1]
LastPart(s, ch) == SubSeq(s, LastIndexOf(s, ch) + 1, Len(s))

\* s.rsplit(ch, 2): at most two splits, taken from the right
RSplit2(s, ch) ==
    LET k2 == LastIndexOf(s, ch)
        head == SubSeq(s, 1, k2 - 1)
        k1 == LastIndexOf(head, ch)
    IN  IF k2 = 0 THEN <<s>>
        ELSE IF k1 = 0 THEN <<head, SubSeq(s, k2 + 1, Len(s))>>
        ELSE <<SubSeq(head, 1, k1 - 1), SubSeq(head, k1 + 1, Len(head)),
               SubSeq(s, k2 + 1, Len(s))>>

\* s.rstrip(ch)
RECURSIVE RStrip(_, _)
RStrip(s, ch) ==
    IF s # <<>> /\ s[Len(s)] = ch[1] THEN RStrip(SubSeq(s, 1, Len(s) - 1), ch)
    ELSE s

\* s.lower(), for ASCII text
Lower(s) == [i \in 1..Len(s) |-> IF s[i] \in 65..90 THEN s[i] + 32 ELSE s[i]]

\* int(s), for a string of decimal digits
RECURSIVE IntOf(_)
IntOf(s) ==
    IF s = <<>> THEN 0
    ELSE 10 * IntOf(SubSeq(s, 1, Len(s) - 1)) + (s[Len(s)] - 48)

\* a < b, as Python compares strings (by code point, a prefix first)
StrLess(a, b) ==
    LET n == IF Len(a) < Len(b) THEN Len(a) ELSE Len(b)
        d == {i \in 1..n : a[i] # b[i]}
    IN  IF d = {} THEN Len(a) < Len(b)
        ELSE LET k == CHOOSE i \in d : \A j \in d : i <= j IN a[k] < b[k]

(***************************************************************************)
(* rdflib terms and statements.  A term is a record of its Python type k,  *)
(* its text v and its language tag; a statement is a triple <<s, p, o>>    *)
(* whose predicate p is named by its prefixed name.                        *)
(***************************************************************************)
URIRef(s) == [k |-> "URIRef", v |-> s, lang |-> ""]
BNode(n) == [k |-> "BNode", v |-> <<78, n + 48>>, lang |-> ""]
Literal(s) == [k |-> "Literal", v |-> s, lang |-> ""]
LiteralEn(s) == [k |-> "Literal", v |-> s, lang |-> "en"]
\* Literal(int(...)): an integer literal, v holds the number
LiteralInt(n) == [k |-> "IntLiteral", v |-> <<n>>, lang |-> ""]

\* (s, p, o) in g
Has(gr, s, p, o) == <<s, p, o>> \in gr
\* g.objects(s, p)
Objects(gr, s, p) == {t[3] : t \in {u \in gr : u[1] = s /\ u[2] = p}}
\* g.objects(predicate=p)
ObjectsOf(gr, p) == {t[3] : t \in {u \in gr : u[2] = p}}
\* g.subjects(p, o)
SubjectsOf(gr, p, o) == {t[1] : t \in {u \in gr : u[2] = p /\ u[3] = o}}
\* g.subjects(unique=True)
Subjects(gr) == {t[1] : t \in gr}

\* rdflib orders terms of different types by type (a BNode before a
\* URIRef) and terms of one type by their text
TermLess(a, b) ==
    IF a.k = b.k THEN StrLess(a.v, b.v)
    ELSE a.k = "BNode" /\ b.k = "URIRef"

\* sorted(S), for a set of URIRefs and BNodes
RECURSIVE Sorted(_)
Sorted(S) ==
    IF S = {} THEN <<>>
    ELSE LET m == CHOOSE x \in S : \A y \in S \ {x} : TermLess(x, y)
         IN  <<m>> \o Sorted(S \ {m})

\* Python's None, and a value that is not None
None == <<>>
Some(x) == <<x>>

(***************************************************************************)
(* The input: a schema model (classes, properties, vocabularies, datatypes *)
(* and individuals), each an ordered mapping held as a sequence of         *)
(* entities that carry their key fq.  The model is built by a loader that  *)
(* is not part of rdf.py; the constructors below follow the data model the *)
(* code reads.                                                             *)
(***************************************************************************)
\* the fully-qualified name /Namespace/LocalName
Fq(ns, name) == Slash \o ns \o Slash \o name
\* the canonical identifier: the base URI followed by Namespace/LocalName
Iri(ns, name) == URI_BASE \o ns \o Slash \o name

\* metadata: a mapping that holds a key only when a value is given
Meta(key, val) == IF val = None THEN <<>> ELSE (key :> val[1])

Class(ns, name, subclassOf, ref, props) ==
    [fq |-> Fq(ns, name), ns |-> ns, name |-> name, iri |-> Iri(ns, name),
     summary |-> sSummary,
     metadata |-> Meta("SubclassOf", subclassOf) @@ Meta("Referenceable", ref),
     properties |-> props]

Property(ns, name, nature, range, summary) ==
    [fq |-> Fq(ns, name), ns |-> ns, name |-> name, iri |-> Iri(ns, name),
     summary |-> summary,
     metadata |-> [Nature |-> nature, Range |-> range]]

\* one entry of a class's properties mapping: local name p -> record
Decl(prop, minCount, maxCount) ==
    [p |-> prop.name, fqname |-> prop.fq,
     minCount |-> minCount, maxCount |-> maxCount]

Vocabulary(ns, name, entries) ==
    [fq |-> Fq(ns, name), ns |-> ns, name |-> name, iri |-> Iri(ns, name),
     summary |-> sSummary, entries |-> entries]

Datatype(ns, name, subclassOf, format) ==
    [fq |-> Fq(ns, name), ns |-> ns, name |-> name, iri |-> Iri(ns, name),
     metadata |-> [SubclassOf |-> subclassOf], format |-> format]

Individual(ns, name, type, customIri) ==
    [fq |-> Fq(ns, name), ns |-> ns, name |-> name, iri |-> Iri(ns, name),
     summary |-> <<>>,
     metadata |-> ("type" :> type) @@ Meta("IRI", customIri)]

\* the properties the input models draw from
pSpdxId == Property(sCore, sSpdxId, sIdProperty, sXsdAnyURI, sSummary)
pKey == Property(sA, sKey, sIdProperty, sFooBar, sSummary)
pType == Property(sCore, sType, sIdProperty, sXsdString, <<>>)
pName == Property(sCore, sName, sDataProperty, sXsdString, sSummary)
pColor == Property(sCore, sColor, sDataProperty, sXsdHue, <<>>)
pOdd == Property(sCore, sOdd, sDataProperty, sFooBar, <<>>)
pStatus == Property(sCore, sStatus, sObjectProperty, sStatusVoc, sSummary)
pAgent == Property(sA, sAgentProp, sObjectProperty, sAbsAgent, <<>>)
pVer == Property(sCore, sVer, sDataProperty, sSemVer, <<>>)
pFlag == Property(sA, sFlag, sObjectProperty, sXsdBoolean, <<>>)
pKind == Property(sCore, sKind, sDataProperty, sStatusVoc, <<>>)

\* the vocabulary entries, label and description
Entries == <<[e |-> sActive, d |-> sInUse], [e |-> sRetired, d |-> sNoLonger],
             [e |-> sOdd, d |-> sSummary]>>
vStatus(n) == Vocabulary(sCore, sStatusVoc, SubSeq(Entries, 1, n))
dSemVer == Datatype(sCore, sSemVer, sXsdString, [pattern |-> sPattern])
iNoAssertion(customIri) ==
    Individual(sCore, sNoAssertion, sAgent, customIri)

\* the combined types mapping: classes, vocabularies and datatypes
Types(m) ==
    [j \in 1..Len(m.classes) |-> [fq |-> m.classes[j].fq, iri |-> m.classes[j].iri]]
    \o [j \in 1..Len(m.vocabularies) |->
          [fq |-> m.vocabularies[j].fq, iri |-> m.vocabularies[j].iri]]
    \o [j \in 1..Len(m.datatypes) |->
          [fq |-> m.datatypes[j].fq, iri |-> m.datatypes[j].iri]]

Model(classes, properties, vocabularies, datatypes, individuals) ==
    [classes |-> classes, properties |-> properties,
     vocabularies |-> vocabularies, datatypes |-> datatypes,
     individuals |-> individuals]

\* key in d, and the index of key in the ordered mapping d (0: a KeyError)
InDict(d, key) == \E j \in 1..Len(d) : d[j].fq = key
Lookup(d, key) ==
    IF InDict(d, key) THEN CHOOSE j \in 1..Len(d) : d[j].fq = key ELSE 0

(***************************************************************************)
(* xsd_range and get_parent.                                               *)
(***************************************************************************)
\* a logged diagnostic: the function that logged it and what it names
Diag(fn, a, b, c) == [fn |-> fn, a |-> a, b |-> b, c |-> c]

\* a faulty variant of xsd_range: any prefix is taken for xsd:
XsdRangeAnyPrefix(rng) ==
    Some(URIRef(XSD_NS \o SubSeq(rng, LastIndexOf(rng, <<58>>) + 1, Len(rng))))

\* xsd_range's result: the XML-Schema datatype named after the xsd: prefix,
\* None for any other reference
xsd_range(rng) ==
    IF StartsWith(rng, sXsdPrefix)
    THEN Some(URIRef(XSD_NS \o SubSeq(rng, 5, Len(rng))))
    ELSE None

\* what xsd_range logs: one warning when the prefix is not xsd:
xsd_range_log(rng, propname) ==
    IF StartsWith(rng, sXsdPrefix) THEN <<>>
    ELSE <<Diag("xsd_range", rng, propname, <<>>)>>

\* get_parent: the index of c's parent class, 0 for None, -1 when the
\* reference names no class of the model (a KeyError)
get_parent(c) ==
    LET ref == IF "SubclassOf" \in DOMAIN c.metadata
               THEN c.metadata.SubclassOf ELSE <<>>
        pns == IF StartsWith(ref, Slash) THEN <<>>
               ELSE Slash \o c.ns \o Slash
    IN  IF ref = <<>> THEN 0
        ELSE IF InDict(model.classes, pns \o ref)
             THEN Lookup(model.classes, pns \o ref)
             ELSE -1

\* a reference resolved against the referencing entity's namespace
Resolve(ref, ns) ==
    (IF StartsWith(ref, Slash) THEN <<>> ELSE Slash \o ns \o Slash) \o ref

(***************************************************************************)
(* The inheritance walk of gen_rdf_ontology.                               *)
(***************************************************************************)
\* a faulty variant: every declaring ancestor overwrites the value
WalkReferenceableLast(ref, p) ==
    IF "Referenceable" \in DOMAIN p.metadata
    THEN Some(p.metadata.Referenceable) ELSE ref

\* the walk's referenceable after visiting class p
WalkReferenceable(ref, p) ==
    IF ref = None /\ "Referenceable" \in DOMAIN p.metadata
    THEN Some(p.metadata.Referenceable) ELSE ref

\* a faulty variant: the namespace name is not lower-cased
IdNameNoLower(fqprop, prop) ==
    IF prop.ns # sCore THEN prop.ns \o <<95>> \o LastPart(fqprop, Slash)
    ELSE LastPart(fqprop, Slash)

\* the display name of an identifying property
IdName(fqprop, prop) ==
    IF prop.ns # sCore
    THEN Lower(prop.ns) \o <<95>> \o LastPart(fqprop, Slash)
    ELSE LastPart(fqprop, Slash)

\* every declared property is a property of the model
PropsResolve(props) ==
    \A k \in 1..Len(props) : InDict(model.properties, props[k].fqname)

\* the loop over a class's properties: the last identifying one is kept
RECURSIVE IdScan(_, _, _)
IdScan(props, k, acc) ==
    IF k > Len(props) THEN acc
    ELSE LET fqprop == props[k].fqname
             prop == model.properties[Lookup(model.properties, fqprop)]
         IN  IdScan(props, k + 1,
                    IF prop.metadata.Nature = sIdProperty
                    THEN Some(IdName(fqprop, prop)) ELSE acc)

\* the walk's id_property after visiting class p
WalkIdProperty(idp, p) ==
    IF idp = None /\ p.properties # <<>>
    THEN IdScan(p.properties, 1, idp) ELSE idp

\* the run ends in an uncaught KeyError
Abort ==
    /\ pc' = "KeyError"
    /\ UNCHANGED <<model, g, ci, parent, referenceable, id_property, pi, li,
                   bn, log, terms, has_named_individuals, todo>>

\* for fqname, c in model.classes.items(): the statements of the class and
\* the start of its walk
ClassStart ==
    /\ pc = "classes"
    /\ ci <= Len(model.classes)
    /\ LET c == model.classes[ci]
           node == URIRef(c.iri)
           par == get_parent(c)
       IN  IF par = -1 THEN Abort
           ELSE /\ g' = g \cup {<<node, "rdf:type", URIRef(RDFS_Class)>>,
                                <<node, "rdf:type", URIRef(OWL_Class)>>}
                          \cup (IF c.summary # <<>>
                                THEN {<<node, "rdfs:comment", LiteralEn(c.summary)>>}
                                ELSE {})
                          \cup (IF par # 0
                                THEN {<<node, "rdfs:subClassOf",
                                        URIRef(model.classes[par].iri)>>}
                                ELSE {})
                /\ id_property' = None
                /\ referenceable' = None
                /\ parent' = ci
                /\ pc' = "walk"
                /\ UNCHANGED <<model, ci, pi, li, bn, log, terms,
                               has_named_individuals, todo>>

\* one iteration of `while parent:`
WalkStep ==
    /\ pc = "walk"
    /\ parent # 0
    /\ LET p == model.classes[parent]
           scans == id_property = None /\ p.properties # <<>>
       IN  IF (scans /\ ~PropsResolve(p.properties)) \/ get_parent(p) = -1
           THEN Abort
           ELSE /\ referenceable' = WalkReferenceable(referenceable, p)
                /\ id_property' = WalkIdProperty(id_property, p)
                /\ parent' = get_parent(p)
                /\ UNCHANGED <<model, pc, g, ci, pi, li, bn, log, terms,
                               has_named_individuals, todo>>

\* after the walk: the class's referenceable and idPropertyName statements
\* and, when it declares properties, its NodeShape type
ClassEmit ==
    /\ pc = "walk"
    /\ parent = 0
    /\ LET c == model.classes[ci]
           node == URIRef(c.iri)
           ref == IF referenceable = None THEN sOptional ELSE referenceable[1]
       IN  g' = g \cup {<<node, "spdxs:referenceable", Literal(ref)>>}
                  \cup (IF id_property # None
                        THEN {<<node, "spdxs:idPropertyName",
                                Literal(id_property[1])>>}
                        ELSE {})
                  \cup (IF c.properties # <<>>
                        THEN {<<node, "rdf:type", URIRef(SH_NodeShape)>>}
                        ELSE {})
    /\ pi' = 1
    /\ pc' = "shapes"
    /\ UNCHANGED <<model, ci, parent, referenceable, id_property, li, bn, log,
                   terms, has_named_individuals, todo>>

(***************************************************************************)
(* The property shapes of a class.                                         *)
(***************************************************************************)
\* a faulty variant: no property is skipped
ShapeSkipsNone(prop) == FALSE

\* the property shape loop skips a property (`continue`)
ShapeSkips(prop) == prop.metadata.Nature = sIdProperty

\* the type name a shape's range is looked up under
ShapeTypename(prop) ==
    IF ~Contains(prop.metadata.Range, <<58>>)
    THEN Resolve(prop.metadata.Range, prop.ns)
    ELSE prop.metadata.Range

\* the range reference handed to xsd_range for a shape, None when the range
\* is a class or a vocabulary
ShapeXsdArg(prop) ==
    LET typename == ShapeTypename(prop)
    IN  IF InDict(model.classes, typename) \/ InDict(model.vocabularies, typename)
        THEN None
        ELSE IF InDict(model.datatypes, typename)
        THEN Some(model.datatypes[Lookup(model.datatypes, typename)]
                      .metadata.SubclassOf)
        ELSE Some(typename)

\* the class, pattern and datatype constraints of a shape
ShapeRange(bnode, prop) ==
    LET typename == ShapeTypename(prop)
        arg == ShapeXsdArg(prop)
        t == IF arg = None THEN None ELSE xsd_range(arg[1])
    IN  (IF InDict(model.classes, typename)
         THEN {<<bnode, "sh:class",
                 URIRef(model.classes[Lookup(model.classes, typename)].iri)>>}
         ELSE IF InDict(model.vocabularies, typename)
         THEN {<<bnode, "sh:class",
                 URIRef(model.vocabularies[Lookup(model.vocabularies, typename)].iri)>>}
         ELSE IF InDict(model.datatypes, typename)
         THEN LET dt == model.datatypes[Lookup(model.datatypes, typename)]
              IN  IF "pattern" \in DOMAIN dt.format
                  THEN {<<bnode, "sh:pattern", Literal(dt.format.pattern)>>}
                  ELSE {}
         ELSE {})
        \cup (IF t # None THEN {<<bnode, "sh:datatype", t[1]>>} ELSE {})

\* a faulty variant: the constraint is emitted for a minimum of zero too
MinCountAlways(bnode, mincount) ==
    {<<bnode, "sh:minCount", LiteralInt(IntOf(mincount))>>}

\* the minimum-count constraint of a shape
MinCount(bnode, mincount) ==
    IF IntOf(mincount) # 0
    THEN {<<bnode, "sh:minCount", LiteralInt(IntOf(mincount))>>}
    ELSE {}

\* the maximum-count constraint of a shape
MaxCount(bnode, maxcount) ==
    IF maxcount # sStar
    THEN {<<bnode, "sh:maxCount", LiteralInt(IntOf(maxcount))>>}
    ELSE {}

\* one iteration of `for p in c.properties:`
ShapeStep ==
    /\ pc = "shapes"
    /\ pi <= Len(model.classes[ci].properties)
    /\ LET c == model.classes[ci]
           node == URIRef(c.iri)
           d == c.properties[pi]
       IN  IF ~InDict(model.properties, d.fqname) THEN Abort
           ELSE LET prop == model.properties[Lookup(model.properties, d.fqname)]
                    bnode == BNode(bn)
                    arg == ShapeXsdArg(prop)
                IN  /\ IF ShapeSkips(prop)
                       THEN UNCHANGED <<g, bn, log>>
                       ELSE /\ g' = g \cup {<<node, "sh:property", bnode>>,
                                            <<bnode, "sh:path", URIRef(prop.iri)>>}
                                      \cup ShapeRange(bnode, prop)
                                      \cup MinCount(bnode, d.minCount)
                                      \cup MaxCount(bnode, d.maxCount)
                            /\ bn' = bn + 1
                            /\ log' = log \o (IF arg = None THEN <<>>
                                              ELSE xsd_range_log(arg[1], prop.iri))
                    /\ pi' = pi + 1
                    /\ UNCHANGED <<model, pc, ci, parent, referenceable,
                                   id_property, li, terms,
                                   has_named_individuals, todo>>

\* the end of a class's iteration: on to the next class
ShapesDone ==
    /\ pc = "shapes"
    /\ pi > Len(model.classes[ci].properties)
    /\ ci' = ci + 1
    /\ pc' = "classes"
    /\ UNCHANGED <<model, g, parent, referenceable, id_property, pi, li, bn,
                   log, terms, has_named_individuals, todo>>

\* the end of the loop over the classes
ClassesDone ==
    /\ pc = "classes"
    /\ ci > Len(model.classes)
    /\ li' = 1
    /\ pc' = "properties"
    /\ UNCHANGED <<model, g, ci, parent, referenceable, id_property, pi, bn,
                   log, terms, has_named_individuals, todo>>

(***************************************************************************)
(* The property declarations, vocabularies and individuals.                *)
(***************************************************************************)
\* a faulty variant: no property is skipped
PropertySkipsNone(p) == FALSE

\* the property loop skips a property (`continue`)
PropertySkips(p) == p.metadata.Nature = sIdProperty

\* the range reference handed to xsd_range for a property declaration, None
\* when the range is looked up in model.types
PropertyXsdArg(p) ==
    LET rng == p.metadata.Range
        typename == Resolve(rng, p.ns)
    IN  IF Contains(rng, <<58>>) THEN Some(rng)
        ELSE IF InDict(model.datatypes, typename)
        THEN Some(model.datatypes[Lookup(model.datatypes, typename)]
                      .metadata.SubclassOf)
        ELSE None

\* the range lookup of property p raises a KeyError
PropertyKeyError(p) ==
    /\ PropertyXsdArg(p) = None
    /\ ~InDict(Types(model), Resolve(p.metadata.Range, p.ns))

\* the statements of one property declaration
PropertyTriples(p) ==
    LET node == URIRef(p.iri)
        arg == PropertyXsdArg(p)
        t == IF arg = None THEN None ELSE xsd_range(arg[1])
        types == Types(model)
    IN  {<<node, "rdf:type", URIRef(RDF_Property)>>}
        \cup (IF p.summary # <<>>
              THEN {<<node, "rdfs:comment", LiteralEn(p.summary)>>} ELSE {})
        \cup (IF p.metadata.Nature = sObjectProperty
              THEN {<<node, "rdf:type", URIRef(OWL_ObjectProperty)>>}
              ELSE IF p.metadata.Nature = sDataProperty
              THEN {<<node, "rdf:type", URIRef(OWL_DatatypeProperty)>>}
              ELSE {})
        \cup (IF arg # None
              THEN (IF t # None THEN {<<node, "rdfs:range", t[1]>>} ELSE {})
              ELSE {<<node, "rdfs:range",
                      URIRef(types[Lookup(types, Resolve(p.metadata.Range, p.ns))].iri)>>})

\* one iteration of `for fqname, p in model.properties.items():`
PropertyStep ==
    /\ pc = "properties"
    /\ li <= Len(model.properties)
    /\ LET p == model.properties[li]
           arg == PropertyXsdArg(p)
       IN  IF ~PropertySkips(p) /\ PropertyKeyError(p) THEN Abort
           ELSE /\ IF PropertySkips(p)
                   THEN UNCHANGED <<g, log>>
                   ELSE /\ g' = g \cup PropertyTriples(p)
                        /\ log' = log \o (IF arg = None THEN <<>>
                                          ELSE xsd_range_log(arg[1], p.name))
                /\ li' = li + 1
                /\ UNCHANGED <<model, pc, ci, parent, referenceable,
                               id_property, pi, bn, terms,
                               has_named_individuals, todo>>

\* the end of the loop over the properties
PropertiesDone ==
    /\ pc = "properties"
    /\ li > Len(model.properties)
    /\ li' = 1
    /\ pc' = "vocabularies"
    /\ UNCHANGED <<model, g, ci, parent, referenceable, id_property, pi, bn,
                   log, terms, has_named_individuals, todo>>

\* the statements of one vocabulary and of its entries
VocabularyTriples(v) ==
    LET node == URIRef(v.iri)
    IN  {<<node, "rdf:type", URIRef(RDFS_Class)>>,
         <<node, "rdf:type", URIRef(OWL_Class)>>}
        \cup (IF v.summary # <<>>
              THEN {<<node, "rdfs:comment", LiteralEn(v.summary)>>} ELSE {})
        \cup UNION {
              LET enode == URIRef(v.iri \o Slash \o v.entries[k].e)
              IN  {<<enode, "rdf:type", URIRef(OWL_NamedIndividual)>>,
                   <<enode, "rdf:type", node>>,
                   <<enode, "rdfs:label", Literal(v.entries[k].e)>>,
                   <<enode, "rdfs:comment", LiteralEn(v.entries[k].d)>>}
              : k \in 1..Len(v.entries)}

\* one iteration of `for fqname, v in model.vocabularies.items():`
VocabularyStep ==
    /\ pc = "vocabularies"
    /\ li <= Len(model.vocabularies)
    /\ g' = g \cup VocabularyTriples(model.vocabularies[li])
    /\ li' = li + 1
    /\ UNCHANGED <<model, pc, ci, parent, referenceable, id_property, pi, bn,
                   log, terms, has_named_individuals, todo>>

\* the end of the loop over the vocabularies
VocabulariesDone ==
    /\ pc = "vocabularies"
    /\ li > Len(model.vocabularies)
    /\ li' = 1
    /\ pc' = "individuals"
    /\ UNCHANGED <<model, g, ci, parent, referenceable, id_property, pi, bn,
                   log, terms, has_named_individuals, todo>>

\* the statements of one individual
IndividualTriples(i) ==
    LET node == URIRef(i.iri)
        types == Types(model)
        typename == Resolve(i.metadata.type, i.ns)
    IN  {<<node, "rdf:type", URIRef(OWL_NamedIndividual)>>,
         <<node, "rdfs:range", URIRef(types[Lookup(types, typename)].iri)>>}
        \cup (IF i.summary # <<>>
              THEN {<<node, "rdfs:comment", LiteralEn(i.summary)>>} ELSE {})
        \cup (IF "IRI" \in DOMAIN i.metadata /\ i.metadata.IRI # <<>>
              THEN {<<node, "owl:sameAs", URIRef(i.metadata.IRI)>>} ELSE {})

\* one iteration of `for fqname, i in model.individuals.items():`
IndividualStep ==
    /\ pc = "individuals"
    /\ li <= Len(model.individuals)
    /\ LET i == model.individuals[li]
       IN  IF ~InDict(Types(model), Resolve(i.metadata.type, i.ns)) THEN Abort
           ELSE /\ g' = g \cup IndividualTriples(i)
                /\ li' = li + 1
                /\ UNCHANGED <<model, pc, ci, parent, referenceable,
                               id_property, pi, bn, log, terms,
                               has_named_individuals, todo>>

\* gen_rdf_ontology returns the graph and gen_rdf hands it to jsonld_context
IndividualsDone ==
    /\ pc = "individuals"
    /\ li > Len(model.individuals)
    /\ pc' = "context"
    /\ UNCHANGED <<model, g, ci, parent, referenceable, id_property, pi, li,
                   bn, log, terms, has_named_individuals, todo>>

(***************************************************************************)
(* jsonld_context.  The table terms is a Python dict: its keys are the     *)
(* seed and subject keys, which are plain strings, and the identifying     *)
(* property names, which are the rdflib Literals read from the graph.  An  *)
(* rdflib Literal is equal only to another Literal, so a Literal and a     *)
(* plain string of the same text are two keys of the dict.                 *)
(***************************************************************************)
\* a plain str used as a key
Str(s) == [k |-> "str", v |-> s, lang |-> ""]

\* a value of the table: a string, or one of the two object forms
TermString(s) == [dict |-> FALSE, id |-> s, type |-> <<>>, vocab |-> <<>>]
TermVocab(subject, o) ==
    [dict |-> TRUE, id |-> subject.v, type |-> sAtVocab, vocab |-> o.v \o Slash]
TermId(subject) ==
    [dict |-> TRUE, id |-> subject.v, type |-> sAtId, vocab |-> <<>>]

\* the two seed entries
SeedTerms ==
    (Str(sSpdx) :> TermString(URI_BASE)) @@ (Str(sType) :> TermString(sAtType))

\* a faulty variant: the name is stored under its text, a plain string
IdnameKeyAsStr(idname) == Str(idname.v)

\* the key an identifying property name is stored under: the Literal itself
IdnameKey(idname) == idname

\* terms after `for idname in set(g.objects(predicate=SPDXS.idPropertyName))`
IdnameTerms(gr) ==
    [key \in {IdnameKey(idname) : idname \in ObjectsOf(gr, "spdxs:idPropertyName")}
        |-> TermString(sAtId)]
    @@ SeedTerms

\* the classes that have a named individual as a member
NamedIndividualTypes(gr) ==
    UNION {Objects(gr, s, "rdf:type")
           : s \in SubjectsOf(gr, "rdf:type", URIRef(OWL_NamedIndividual))}

\* a faulty variant: every subject is mapped to its identifier
GetSubjectTermPlain(subject) == {TermString(subject.v)}

\* the values get_subject_term can return: the loop over the subject's
\* ranges returns at the first range that is a class, in the graph's order
get_subject_term(subject) ==
    LET hits == {o \in Objects(g, subject, "rdfs:range") :
                    \/ o \in has_named_individuals
                    \/ Has(g, o, "rdf:type", URIRef(RDFS_Class))}
    IN  IF Has(g, subject, "rdf:type", URIRef(OWL_ObjectProperty)) /\ hits # {}
        THEN {IF o \in has_named_individuals
              THEN TermVocab(subject, o) ELSE TermId(subject) : o \in hits}
        ELSE {TermString(subject.v)}

\* the term key derived from a subject, None when the subject is skipped
SubjectKey(subject) ==
    LET parts == RSplit2(subject.v, Slash)
    IN  IF Has(g, subject, "rdf:type", URIRef(OWL_NamedIndividual)) THEN None
        ELSE IF Len(parts) # 3 THEN None
        ELSE IF parts[1] # RStrip(URI_BASE, Slash) THEN None
        ELSE IF parts[2] = sCore THEN Some(Str(parts[3]))
        ELSE Some(Str(Lower(parts[2]) \o <<95>> \o parts[3]))

\* the order the subject pass visits the subjects in
SubjectOrder(S) == Sorted(S)

\* the start of jsonld_context: the seed entries, the identifying property
\* names and the classes with named individuals
ContextStart ==
    /\ pc = "context"
    /\ terms' = IdnameTerms(g)
    /\ has_named_individuals' = NamedIndividualTypes(g)
    /\ todo' = SubjectOrder(Subjects(g))
    /\ pc' = "subjects"
    /\ UNCHANGED <<model, g, ci, parent, referenceable, id_property, pi, li,
                   bn, log>>

\* a faulty variant: a key that is in the table is written again
KeepsNone(key) == FALSE

\* a key that is in the table is kept (`continue`)
Keeps(key) == key \in DOMAIN terms

\* one iteration of `for subject in sorted(g.subjects(unique=True)):`
SubjectStep ==
    /\ pc = "subjects"
    /\ todo # <<>>
    /\ LET subject == Head(todo)
           key == SubjectKey(subject)
       IN  IF key = None THEN UNCHANGED <<terms, log>>
           ELSE IF Keeps(key[1])
           THEN /\ log' = Append(log, Diag("jsonld_context", key[1].v,
                                           subject.v, terms[key[1]].id))
                /\ UNCHANGED terms
           ELSE /\ \E term \in get_subject_term(subject) :
                      terms' = (key[1] :> term) @@ terms
                /\ UNCHANGED log
    /\ todo' = Tail(todo)
    /\ UNCHANGED <<model, pc, g, ci, parent, referenceable, id_property, pi,
                   li, bn, has_named_individuals>>

\* jsonld_context returns the table
ContextDone ==
    /\ pc = "subjects"
    /\ todo = <<>>
    /\ pc' = "done"
    /\ UNCHANGED <<model, g, ci, parent, referenceable, id_property, pi, li,
                   bn, log, terms, has_named_individuals, todo>>

Next ==
    \/ ClassStart
    \/ WalkStep
    \/ ClassEmit
    \/ ShapeStep
    \/ ShapesDone
    \/ ClassesDone
    \/ PropertyStep
    \/ PropertiesDone
    \/ VocabularyStep
    \/ VocabulariesDone
    \/ IndividualStep
    \/ IndividualsDone
    \/ ContextStart
    \/ SubjectStep
    \/ ContextDone

(***************************************************************************)
(* The initial states: gen_rdf_ontology has created the graph and added    *)
(* the two statements of the ontology node.                                *)
(***************************************************************************)
Start(m) ==
    /\ model = m
    /\ pc = "classes"
    /\ g = {<<URIRef(URI_BASE), "rdf:type", URIRef(OWL_Ontology)>>,
            <<URIRef(URI_BASE), "owl:versionIRI", URIRef(URI_BASE)>>}
    /\ ci = 1
    /\ parent = 0
    /\ referenceable = None
    /\ id_property = None
    /\ pi = 1
    /\ li = 1
    /\ bn = 1
    /\ log = <<>>
    /\ terms = <<>>
    /\ has_named_individuals = {}
    /\ todo = <<>>

\* one model with an entity of every kind
ScenarioModel ==
    Model(<<Class(sCore, sAgent, None, Some(sYes), <<Decl(pSpdxId, s1, s1)>>),
            Class(sCore, sPerson, Some(sAgent), None,
                  <<Decl(pName, s1, s1), Decl(pColor, s0, sStar)>>)>>,
          <<pSpdxId, pName, pColor, pStatus>>,
          <<vStatus(2)>>, <<dSemVer>>, <<iNoAssertion(Some(sCustomIri))>>)

InitScenario == Start(ScenarioModel)

\* Inheritance-walk models: NumClasses classes, each with a parent
\* reference (none, the next class, and for the last class the first class,
\* itself or a class that does not exist), with or without a Referenceable
\* value and with or without an identifying property.
WalkNames ==
    <<[ns |-> sCore, name |-> sPerson], [ns |-> sCore, name |-> sAgent],
      [ns |-> sA, name |-> sTool], [ns |-> sA, name |-> sThing]>>

ParentRef(i, j) ==
    IF j = 0 THEN None
    ELSE IF j = -1 THEN Some(sMissing)
    ELSE IF WalkNames[i].ns = WalkNames[j].ns THEN Some(WalkNames[j].name)
    ELSE Some(Fq(WalkNames[j].ns, WalkNames[j].name))

ParentOptions(i) ==
    {0} \cup (IF i < NumClasses THEN {i + 1} ELSE {1, NumClasses, -1})

RefOptions == {None, Some(sYes), Some(sNo)}

WalkDecls ==
    {<<>>, <<Decl(pSpdxId, s1, s1)>>,
     <<Decl(pName, s0, sStar), Decl(pKey, s1, s1)>>}

WalkModel(par, ref, dl) ==
    Model([i \in 1..NumClasses |->
              Class(WalkNames[i].ns, WalkNames[i].name,
                    ParentRef(i, par[i]), ref[i], dl[i])],
          <<pSpdxId, pKey, pName>>, <<>>, <<>>, <<>>)

InitWalk ==
    \E par \in {f \in [1..NumClasses -> -1..NumClasses] :
                   \A i \in 1..NumClasses : f[i] \in ParentOptions(i)},
       ref \in [1..NumClasses -> RefOptions],
       dl \in [1..NumClasses -> WalkDecls] :
        Start(WalkModel(par, ref, dl))

\* Shape models: class Person, a subclass of Agent, declares up to MaxProps
\* properties of every nature and range, with various cardinalities.
ShapeDecls ==
    {Decl(pSpdxId, s0, s1), Decl(pKey, s1, s1),
     Decl(pName, s0, sStar), Decl(pName, s1, s1), Decl(pName, s00, s0),
     Decl(pName, s2, sStar),
     Decl(pColor, s0, sStar), Decl(pOdd, s0, s1), Decl(pStatus, s1, sStar),
     Decl(pAgent, s0, s2), Decl(pVer, s00, sStar)}

\* the local names of a properties mapping are its keys: they differ
ShapeDeclSeqs ==
    {s \in UNION {[1..n -> ShapeDecls] : n \in 0..MaxProps} :
        \A a, b \in 1..Len(s) : a # b => s[a].p # s[b].p}

ShapeModel(ds) ==
    Model(<<Class(sCore, sPerson, Some(sAgent), None, ds),
            Class(sCore, sAgent, None, Some(sYes), <<Decl(pSpdxId, s1, s1)>>)>>,
          <<pSpdxId, pKey, pName, pColor, pOdd, pStatus, pAgent, pVer>>,
          <<vStatus(2)>>, <<dSemVer>>, <<iNoAssertion(None)>>)

InitShape == \E ds \in ShapeDeclSeqs : Start(ShapeModel(ds))

\* Context models: class Agent, with or without an identifying property,
\* and any of five more classes, among them three whose term keys collide
\* and one whose key is a seed key; a vocabulary of up to MaxEntries
\* entries and properties that range over it and over Agent.
CtxNames ==
    <<[ns |-> sCore, name |-> sATool], [ns |-> sLowA, name |-> sTool],
      [ns |-> sA, name |-> sTool], [ns |-> sCore, name |-> sType],
      [ns |-> sCore, name |-> sAKey]>>

CtxIds ==
    {<<>>, <<Decl(pSpdxId, s1, s1)>>, <<Decl(pKey, s1, s1)>>,
     <<Decl(pType, s1, s1)>>}

RECURSIVE CtxClasses(_, _)
CtxClasses(k, present) ==
    IF k > Len(CtxNames) THEN <<>>
    ELSE (IF k \in present
          THEN <<Class(CtxNames[k].ns, CtxNames[k].name, None, None, <<>>)>>
          ELSE <<>>) \o CtxClasses(k + 1, present)

CtxModel(present, ids, n) ==
    Model(<<Class(sCore, sAgent, None, None, ids)>> \o CtxClasses(1, present),
          <<pSpdxId, pKey, pType, pStatus, pAgent, pFlag, pKind>>,
          <<vStatus(n)>>, <<>>, <<iNoAssertion(Some(sCustomIri))>>)

InitCtx ==
    \E present \in SUBSET (1..Len(CtxNames)), ids \in CtxIds,
       n \in 0..MaxEntries :
        Start(CtxModel(present, ids, n))

\* the specifications: the program run on the models of each family
SpecWalk == (InitScenario \/ InitWalk) /\ [][Next]_vars
SpecShape == (InitScenario \/ InitShape) /\ [][Next]_vars
SpecCtx == (InitScenario \/ InitCtx) /\ [][Next]_vars

\* the run is one sequential thread: a step that can be taken is taken
FairWalk == SpecWalk /\ WF_vars(Next)

(***************************************************************************)
(* What the properties below speak of.                                     *)
(***************************************************************************)
\* the class that class j's SubclassOf reference names, 0 when j has no
\* reference or the reference names no class
ParentOf(j) ==
    LET c == model.classes[j]
    IN  IF "SubclassOf" \in DOMAIN c.metadata
        THEN Lookup(model.classes, Resolve(c.metadata.SubclassOf, c.ns))
        ELSE 0

\* the chain j, parent(j), parent(parent(j)), ..., cut at the number of classes
RECURSIVE ChainFrom(_, _)
ChainFrom(j, fuel) ==
    IF j = 0 \/ fuel = 0 THEN <<>>
    ELSE <<j>> \o ChainFrom(ParentOf(j), fuel - 1)
Chain(j) == ChainFrom(j, Len(model.classes))

\* the chain from j is finite and acyclic: it ends at a class without a
\* SubclassOf reference
AcyclicChain(j) ==
    "SubclassOf" \notin DOMAIN model.classes[Chain(j)[Len(Chain(j))]].metadata

\* the statements of class j's walk have been emitted
Emitted(j) == j < ci \/ (j = ci /\ pc = "shapes")
\* class j's iteration of the class loop is over
Shaped(j) == j < ci

ClassNode(j) == URIRef(model.classes[j].iri)
PropertyOf(d) == model.properties[Lookup(model.properties, d.fqname)]
IsId(prop) == prop.metadata.Nature = sIdProperty

\* the positions of the chain whose class declares P
FirstPos(ch, P(_)) ==
    IF \E n \in 1..Len(ch) : P(ch[n])
    THEN CHOOSE n \in 1..Len(ch) : P(ch[n]) /\ \A m \in 1..(n - 1) : ~P(ch[m])
    ELSE 0

DeclaresReferenceable(j) == "Referenceable" \in DOMAIN model.classes[j].metadata
IdDecls(j) ==
    {PropertyOf(model.classes[j].properties[n]) :
        n \in {m \in 1..Len(model.classes[j].properties) :
                  IsId(PropertyOf(model.classes[j].properties[m]))}}
DeclaresId(j) == IdDecls(j) # {}

\* the referenceable value of class j by the rule of nearest declaration
NearestReferenceable(j) ==
    LET n == FirstPos(Chain(j), DeclaresReferenceable)
    IN  IF n = 0 THEN sOptional
        ELSE model.classes[Chain(j)[n]].metadata.Referenceable

(***************************************************************************)
(* C1: for every class whose SubclassOf chain is finite and acyclic, the   *)
(* graph holds exactly one spdxs:referenceable statement for the class,    *)
(* and its value is the Referenceable value of the nearest class on the    *)
(* chain (the class included) that declares one, "optional" when none does.*)
(***************************************************************************)
C1_NearestReferenceable ==
    \A j \in 1..Len(model.classes) :
        (Emitted(j) /\ AcyclicChain(j)) =>
            Objects(g, ClassNode(j), "spdxs:referenceable")
                = {Literal(NearestReferenceable(j))}

\* a class that declares no Referenceable value has taken the value "no"
\* of its parent
C1_Witness ==
    /\ pc = "done"
    /\ \E j \in 1..Len(model.classes) :
          /\ ~DeclaresReferenceable(j)
          /\ Len(Chain(j)) >= 2
          /\ NearestReferenceable(j) = sNo
          /\ Has(g, ClassNode(j), "spdxs:referenceable", Literal(sNo))

(***************************************************************************)
(* C2: the inheritance walk of every class ends: whenever the run is in    *)
(* the walk it leaves it, by reaching a class without a SubclassOf         *)
(* reference or by a fatal error.                                          *)
(***************************************************************************)
C2_WalkTerminates == (pc = "walk") ~> (pc # "walk")

(***************************************************************************)
(* C7: for every class whose chain is finite and acyclic, the graph holds  *)
(* an spdxs:idPropertyName statement exactly when a class on the chain     *)
(* declares an identifying property; its value names an identifying        *)
(* property of the nearest such class: the local name for a property of    *)
(* namespace Core, else the lower-cased namespace, "_" and the local name. *)
(***************************************************************************)
ExpectedIdName(prop) ==
    IF prop.ns = sCore THEN prop.name
    ELSE Lower(prop.ns) \o <<95>> \o prop.name

C7_IdPropertyName ==
    \A j \in 1..Len(model.classes) :
        (Emitted(j) /\ AcyclicChain(j)) =>
            LET n == FirstPos(Chain(j), DeclaresId)
                names == Objects(g, ClassNode(j), "spdxs:idPropertyName")
            IN  IF n = 0 THEN names = {}
                ELSE /\ Cardinality(names) = 1
                     /\ names \subseteq
                          {Literal(ExpectedIdName(prop)) : prop \in IdDecls(Chain(j)[n])}

\* a class that declares Referenceable itself and no identifying property
\* has taken the name a_key from its parent's property /A/key
C7_Witness ==
    /\ pc = "done"
    /\ \E j \in 1..Len(model.classes) :
          /\ DeclaresReferenceable(j)
          /\ ~DeclaresId(j)
          /\ Len(Chain(j)) >= 2
          /\ pKey \in IdDecls(Chain(j)[2])
          /\ Objects(g, ClassNode(j), "spdxs:idPropertyName")
                = {Literal(<<97, 95, 107, 101, 121>>)}

(***************************************************************************)
(* The property shapes, as the properties below read them from the graph.  *)
(***************************************************************************)
\* the property shapes of class j, in the order of their creation
ShapesOf(j) == Sorted(Objects(g, ClassNode(j), "sh:property"))
\* the shapes whose path is property prop
ShapesWithPath(prop) == SubjectsOf(g, "sh:path", URIRef(prop.iri))

\* the declarations of class j that are not identifying properties
RECURSIVE Ordinary(_)
Ordinary(ds) ==
    IF ds = <<>> THEN <<>>
    ELSE (IF IsId(PropertyOf(Head(ds))) THEN <<>> ELSE <<Head(ds)>>)
         \o Ordinary(Tail(ds))
OrdinaryDecls(j) == Ordinary(model.classes[j].properties)

\* property prop is declared by a class
Declared(prop) ==
    \E j \in 1..Len(model.classes) :
        \E n \in 1..Len(model.classes[j].properties) :
            model.classes[j].properties[n].fqname = prop.fq

\* the diagnostics xsd_range logged for the range of property prop
RangeDiagnostics(prop) ==
    {n \in 1..Len(log) :
        /\ log[n].fn = "xsd_range"
        /\ log[n].a = prop.metadata.Range
        /\ log[n].b \in {prop.name, prop.iri}}

\* the standard XML-Schema datatypes among the ranges of the models
StandardXsd == {sXsdString, sXsdAnyURI, sXsdBoolean}

\* no range statement for prop and no datatype constraint in a shape of
\* prop; a diagnostic, exactly one when no class declares prop
RangeOmitted(prop) ==
    /\ Objects(g, URIRef(prop.iri), "rdfs:range") = {}
    /\ \A b \in ShapesWithPath(prop) : Objects(g, b, "sh:datatype") = {}
    /\ RangeDiagnostics(prop) # {}
    /\ ~Declared(prop) => Cardinality(RangeDiagnostics(prop)) = 1

(***************************************************************************)
(* C3 as stated: when the run is over, every property whose Range is a     *)
(* colon-prefixed reference that names no standard XML-Schema datatype     *)
(* (such as xsd:hue) has no range statement and no datatype constraint,    *)
(* and a diagnostic was logged for it.                                     *)
(***************************************************************************)
C3_AsStated ==
    pc = "done" =>
        \A n \in 1..Len(model.properties) :
            LET prop == model.properties[n]
            IN  (Contains(prop.metadata.Range, <<58>>)
                   /\ prop.metadata.Range \notin StandardXsd)
                => RangeOmitted(prop)

(***************************************************************************)
(* C3, amended: the run does not end in an error, and when it is over,     *)
(* every property that is not an identifying property and whose Range      *)
(* holds a colon and does not start with xsd: (such as foo:bar) has no     *)
(* range statement and no datatype constraint in any shape of it, and a    *)
(* diagnostic was logged for it, exactly one when no class declares it.    *)
(***************************************************************************)
C3_UnknownPrefixOmitted ==
    /\ pc # "KeyError"
    /\ pc = "done" =>
        \A n \in 1..Len(model.properties) :
            LET prop == model.properties[n]
            IN  (~IsId(prop)
                   /\ Contains(prop.metadata.Range, <<58>>)
                   /\ ~StartsWith(prop.metadata.Range, sXsdPrefix))
                => RangeOmitted(prop)

\* the run is over, class Person declares property /Core/odd of range
\* foo:bar, a shape of it exists and two diagnostics were logged for it
C3_Witness ==
    /\ pc = "done"
    /\ Declared(pOdd)
    /\ ShapesWithPath(pOdd) # {}
    /\ Objects(g, URIRef(pOdd.iri), "rdfs:range") = {}
    /\ Cardinality(RangeDiagnostics(pOdd)) = 2

C5_NoIdProperty ==
    \A n \in 1..Len(model.properties) :
        IsId(model.properties[n]) =>
            /\ \A t \in g : t[1] # URIRef(model.properties[n].iri)
            /\ ShapesWithPath(model.properties[n]) = {}

\* the run is over; class Person declares the identifying property /A/key
\* itself and class Agent, its parent, declares /Core/spdxId
C5_Witness ==
    /\ pc = "done"
    /\ \E j \in 1..Len(model.classes) :
          /\ pKey \in IdDecls(j)
          /\ Len(Chain(j)) >= 2
          /\ pSpdxId \in IdDecls(Chain(j)[2])
          /\ OrdinaryDecls(j) # <<>>
          /\ Has(g, ClassNode(j), "spdxs:idPropertyName",
                 Literal(<<97, 95, 107, 101, 121>>))

(***************************************************************************)
(* C8: a property shape has a sh:minCount constraint exactly when the      *)
(* declared minCount is not zero and a sh:maxCount constraint exactly      *)
(* when the declared maxCount is not "*"; the constraint carries the       *)
(* declared value as an integer.                                           *)
(***************************************************************************)
\* the count is written with zeros only
IsZero(count) == \A n \in 1..Len(count) : count[n] = 48

C8_Counts ==
    \A j \in 1..Len(model.classes) :
        Shaped(j) =>
            \A n \in 1..Len(OrdinaryDecls(j)) :
                LET d == OrdinaryDecls(j)[n]
                IN  \A b \in ShapesWithPath(PropertyOf(d))
                            \cap Objects(g, ClassNode(j), "sh:property") :
                        /\ Objects(g, b, "sh:minCount")
                            = (IF IsZero(d.minCount) THEN {}
                               ELSE {LiteralInt(IntOf(d.minCount))})
                        /\ Objects(g, b, "sh:maxCount")
                            = (IF d.maxCount = sStar THEN {}
                               ELSE {LiteralInt(IntOf(d.maxCount))})

\* a shape of a property declared with minCount "00" and maxCount "0" has
\* no minimum and the maximum 0, and a shape of a property declared with
\* minCount "1" and maxCount "*" has the minimum 1 and no maximum
C8_Witness ==
    \E j \in 1..Len(model.classes) :
        /\ Shaped(j)
        /\ \E n \in 1..Len(OrdinaryDecls(j)) :
              /\ OrdinaryDecls(j)[n].minCount = s00
              /\ OrdinaryDecls(j)[n].maxCount = s0
              /\ Objects(g, ShapesOf(j)[n], "sh:minCount") = {}
              /\ Objects(g, ShapesOf(j)[n], "sh:maxCount") = {LiteralInt(0)}
        /\ \E n \in 1..Len(OrdinaryDecls(j)) :
              /\ OrdinaryDecls(j)[n].minCount = s1
              /\ OrdinaryDecls(j)[n].maxCount = sStar
              /\ Objects(g, ShapesOf(j)[n], "sh:minCount") = {LiteralInt(1)}
              /\ Objects(g, ShapesOf(j)[n], "sh:maxCount") = {}

(***************************************************************************)
(* The term table, as the properties below read it.                        *)
(***************************************************************************)
\* the subjects of the graph that derive term key key
KeyedSubjects(key) == {s \in Subjects(g) : SubjectKey(s) = Some(key)}
\* the keys that two or more subjects derive
CollidingKeys ==
    {key \in {SubjectKey(s)[1] : s \in {x \in Subjects(g) : SubjectKey(x) # None}} :
        Cardinality(KeyedSubjects(key)) >= 2}
\* the first of a set of subjects in sorted order: the least identifier
FirstSubject(S) == CHOOSE x \in S : \A y \in S \ {x} : StrLess(x.v, y.v)
\* the duplicate-key diagnostics that name subject s
DuplicateDiagnostics(s) ==
    {n \in 1..Len(log) : log[n].fn = "jsonld_context" /\ log[n].b = s.v}

(***************************************************************************)
(* C6: when the run is over, every key that two or more subjects derive    *)
(* is mapped to the first of them in sorted order, every later one was     *)
(* skipped with exactly one diagnostic and the first with none; and        *)
(* during the subject pass no entry of the table is replaced or removed.   *)
(***************************************************************************)
C6_FirstWriterWins ==
    /\ [](pc = "done" =>
            \A key \in CollidingKeys :
                LET first == FirstSubject(KeyedSubjects(key))
                IN  /\ key \in DOMAIN terms
                    /\ terms[key].id = first.v
                    /\ DuplicateDiagnostics(first) = {}
                    /\ \A s \in KeyedSubjects(key) \ {first} :
                          Cardinality(DuplicateDiagnostics(s)) = 1)
    /\ [][pc = "subjects" =>
            \A key \in DOMAIN terms :
                key \in DOMAIN terms' /\ terms'[key] = terms[key]]_vars

\* the run is over; the classes /Core/a_Tool, /a/Tool and /A/Tool, declared
\* in this order, all derive the key a_Tool, which is mapped to /A/Tool;
\* one diagnostic was logged for each of the other two
C6_Witness ==
    /\ pc = "done"
    /\ Cardinality(KeyedSubjects(Str(sATool))) = 3
    /\ terms[Str(sATool)].id = Iri(sA, sTool)
    /\ Cardinality(DuplicateDiagnostics(URIRef(Iri(sCore, sATool)))) = 1
    /\ Cardinality(DuplicateDiagnostics(URIRef(Iri(sLowA, sTool)))) = 1

(***************************************************************************)
(* C9: from the seeding on, the table maps the key spdx to the base URI    *)
(* and the key type to @type.                                              *)
(***************************************************************************)
C9_SeedsKept ==
    pc \in {"subjects", "done"} =>
        /\ Str(sSpdx) \in DOMAIN terms
        /\ terms[Str(sSpdx)] = [dict |-> FALSE, id |-> URI_BASE,
                                type |-> <<>>, vocab |-> <<>>]
        /\ Str(sType) \in DOMAIN terms
        /\ terms[Str(sType)] = [dict |-> FALSE, id |-> sAtType,
                                type |-> <<>>, vocab |-> <<>>]

\* the run is over; the graph names an identifying property `type`, which
\* is a key of the table, and holds the class /Core/type, whose key is
\* `type` and which was skipped with a diagnostic
C9_Witness ==
    /\ pc = "done"
    /\ Literal(sType) \in ObjectsOf(g, "spdxs:idPropertyName")
    /\ Literal(sType) \in DOMAIN terms
    /\ SubjectKey(URIRef(Iri(sCore, sType))) = Some(Str(sType))
    /\ Cardinality(DuplicateDiagnostics(URIRef(Iri(sCore, sType)))) = 1

(***************************************************************************)
(* C10: a subject that is mapped under a new key is mapped to the          *)
(* @vocab object form when it is an owl:ObjectProperty whose range is a    *)
(* class with a named individual as a member, to the @id object form when  *)
(* it is an owl:ObjectProperty whose range is a class without one, and to  *)
(* its own identifier in every other case.                                 *)
(***************************************************************************)
IsObjectProperty(s) == Has(g, s, "rdf:type", URIRef(OWL_ObjectProperty))
IsClassNode(o) == Has(g, o, "rdf:type", URIRef(RDFS_Class))
HasMember(o) ==
    \E x \in SubjectsOf(g, "rdf:type", URIRef(OWL_NamedIndividual)) :
        Has(g, x, "rdf:type", o)
ClassRanges(s) == {o \in Objects(g, s, "rdfs:range") : IsClassNode(o)}

ExpectedTerms(s) ==
    IF IsObjectProperty(s) /\ ClassRanges(s) # {}
    THEN {IF HasMember(o)
          THEN [dict |-> TRUE, id |-> s.v, type |-> sAtVocab,
                vocab |-> o.v \o Slash]
          ELSE [dict |-> TRUE, id |-> s.v, type |-> sAtId, vocab |-> <<>>]
          : o \in ClassRanges(s)}
    ELSE {[dict |-> FALSE, id |-> s.v, type |-> <<>>, vocab |-> <<>>]}

C10_SubjectTerm ==
    [][pc = "subjects" =>
        \A key \in DOMAIN terms' \ DOMAIN terms :
            terms'[key] \in ExpectedTerms(Head(todo))]_vars

\* the run is over; /Core/status, whose range is a vocabulary with an
\* entry, has the @vocab form, /A/agent, whose range is class Agent, has
\* the @id form, and /A/flag (range xsd:boolean), the data property
\* /Core/kind and class Agent are mapped to their identifiers
C10_Witness ==
    /\ pc = "done"
    /\ terms[Str(sStatus)] = [dict |-> TRUE, id |-> Iri(sCore, sStatus),
                              type |-> sAtVocab,
                              vocab |-> Iri(sCore, sStatusVoc) \o Slash]
    /\ terms[Str(<<97, 95>> \o sAgentProp)]
          = [dict |-> TRUE, id |-> Iri(sA, sAgentProp), type |-> sAtId,
             vocab |-> <<>>]
    /\ terms[Str(<<97, 95>> \o sFlag)]
          = [dict |-> FALSE, id |-> Iri(sA, sFlag), type |-> <<>>,
             vocab |-> <<>>]
    /\ terms[Str(sKind)].dict = FALSE
    /\ terms[Str(sAgent)].id = Iri(sCore, sAgent)

=============================================================================
